---- MODULE Spec2Model ----
(***************************************************************************)
(* The news ticker widget of src/web/ticker.js (class NewsTicker) together *)
(* with the part of the news endpoint of src/server/server.js that decides *)
(* which feed a request is answered from.                                  *)
(*                                                                         *)
(* The browser is the environment: it delivers click, dblclick and hover   *)
(* events to the listeners while the widget's elements are in the          *)
(* document, runs the pending animation frame, fires the interval timer,   *)
(* resolves or rejects pending fetches, and lets time pass.                *)
(*                                                                         *)
(* Time is counted in milliseconds, as Date.now() does, and advances in    *)
(* steps of TimeStep.  The interval timer's period (RefreshPeriod) is      *)
(* shorter than a step, so its callback may fire at any moment of the      *)
(* model.                                                                  *)
(*                                                                         *)
(* Spec is the widget as the browser drives it.  The other specifications  *)
(* run the same operations from other initial states: SpecAnim in a wide   *)
(* layout and with a speed option, SpecCache with a cache that is denied   *)
(* or holds foreign text, SpecUnmounted on a widget whose init() ended     *)
(* early and whose public methods the page calls, SpecTimeAgo on calls of  *)
(* formatTimeAgo.  SpecVideo is the video player of src/unnamed/part_000.  *)
(***************************************************************************)
EXTENDS Integers, Sequences, FiniteSets, Bags, TLC

\* ----------------------------------------------------------- the instance
\* The widget is constructed with options.maxHeadlines = 2 (the default is
\* 50), so that the endpoint's lists can be longer than what is kept.
maxHeadlines == 2
\* The layout of the page gives every rendered headline element a width of
\* one pixel.
ItemWidth == 1

\* ------------------------------------------------------------------ bounds
\* the longest list the endpoint answers with: one more than is kept
MaxRespLen == maxHeadlines + 1
\* fetches in flight at once
MaxInflight == 2
\* how many steps of the clock make up the cache's maximal age
StepsPerMaxAge == 2
\* the width, in pixels, of a headline element in a wide layout
WideItem == 61
\* the largest age given to formatTimeAgo, in seconds, minutes and hours
MaxAge == 61
\* the longest playlist of the video player
MaxPlaylist == 2

\* ------------------------------------------------------- program constants
speed == 60
RefreshPeriod == 300000
CacheMaxAge == 3600000
FramesPerSecond == 60

TimeStep == CacheMaxAge \div StepsPerMaxAge
MaxNow == CacheMaxAge

\* currentServiceIndex before setupServiceSelector has run
Undefined == -1

\* ---------------------------------------------------------- service cycle
serviceCycle ==
  << [service |-> "sports",  label |-> "Sports"],
     [service |-> "local",   label |-> "Local"],
     [service |-> "news",    label |-> "News"],
     [service |-> "weather", label |-> "Weather"],
     [service |-> "tweets",  label |-> "Tweets"] >>

\* serviceCycle is a JavaScript array: index i is element i + 1 here
CycleAt(i) == serviceCycle[i + 1]

Services == {serviceCycle[k].service : k \in 1..Len(serviceCycle)}

HiddenGlyph == "hidden-glyph"

NextIndexSkip(i) == (i + 2) % Len(serviceCycle)

NextIndexShortCycle(i) == (i + 1) % (Len(serviceCycle) - 1)

NextIndex(i) == (i + 1) % Len(serviceCycle)

\* -------------------------------------------------------------- endpoint
\* The query string of the request: "" when no service parameter is sent.
Endpoint(service) == IF service # "" /\ service # "news" THEN service ELSE ""

\* server.js: req.query.service || 'news'
RequestedService(query) == IF query = "" THEN "news" ELSE query

SourceFile(service) ==
  CASE service = "local"   -> "news-local.txt"
    [] service = "sports"  -> "news-sports.txt"
    [] service = "weather" -> "news-weather.txt"
    [] service = "tweets"  -> "news-tweets.txt"
    [] OTHER               -> "news.txt"

\* The first n headlines of a feed file; a headline is <<file, position>>.
Feed(file, n) == [k \in 1..n |-> <<file, k>>]

\* The lists the endpoint may answer a request with.
Responses(query) ==
  {Feed(SourceFile(RequestedService(query)), n) : n \in 0..MaxRespLen}

\* ------------------------------------------------------------------ state
VARIABLES
  phase,                \* where init() is: "aborted", "font", "failed", "live"
  dom,                  \* the ticker's elements are in the container
  destroyed,            \* destroy() has been called
  currentServiceIndex,
  currentService,
  btnLabel,             \* text of #news-service-btn
  hidden,               \* .news-ticker-content has class 'hidden'
  headlines,
  rendered,             \* the children of .news-ticker-list
  offlineMode,
  isPaused,
  currentPosition,
  animationId,          \* TRUE when a frame handle is stored
  framePending,         \* a requested animation frame has not run yet
  timerActive,          \* the setInterval of init() exists
  inflight,             \* bag of the queries of the pending fetches
  storage,              \* localStorage['news-ticker-cache']: <<>> or <<text>>
  now,                  \* Date.now()
  cycleLog,             \* the last entries of the service cycle visited
  badgeDisplay,         \* style.display of .news-ticker-offline-badge
  optionsSpeed,         \* options.speed, in pixels per second
  itemWidth,            \* the width the layout gives a headline element
  stepsRun,             \* unpaused animation steps since the last reset
  lastFetch,            \* how the latest completed fetch ended
  rejected,             \* a promise of loadHeadlines has rejected
  videoPlaylist,        \* the URLs of the video player's playlist
  videoCurrentIndex,
  videoIsPlaying,
  videoIframe,          \* src and style.display of #videoIframe
  timestampArg,         \* the argument of a call of formatTimeAgo
  timeAgo               \* what that call returned

vars == << phase, dom, destroyed, currentServiceIndex, currentService,
           btnLabel, hidden, headlines, rendered, offlineMode, isPaused,
           currentPosition, animationId, framePending, timerActive,
           inflight, storage, now, cycleLog, badgeDisplay, optionsSpeed,
           itemWidth, stepsRun, lastFetch, rejected, videoPlaylist,
           videoCurrentIndex, videoIsPlaying, videoIframe, timestampArg,
           timeAgo >>

\* The video player's state and the call of formatTimeAgo.
videoVars == << videoPlaylist, videoCurrentIndex, videoIsPlaying, videoIframe >>

timeAgoVars == << timestampArg, timeAgo >>

\* The fields of the ticker.
tickerVars == << phase, dom, destroyed, currentServiceIndex, currentService,
                 btnLabel, hidden, headlines, rendered, offlineMode, isPaused,
                 currentPosition, animationId, framePending, timerActive,
                 inflight, storage, now, cycleLog, badgeDisplay, stepsRun,
                 lastFetch, rejected >>

\* What no method of the ticker assigns after construction.
outside == << optionsSpeed, itemWidth, videoVars, timeAgoVars >>

\* --------------------------------------------------------------- helpers
Min(a, b) == IF a < b THEN a ELSE b

Abs(x) == IF x < 0 THEN 0 - x ELSE x

\* Array.prototype.slice(0, n) for n >= 0
Slice(list, n) == SubSeq(list, 1, Min(Len(list), n))

\* JSON.stringify of a snapshot and JSON.parse of the stored text.  The text
\* is modelled as the pair of the two serialised fields.
Stringify(snapshot) == << snapshot.headlines, snapshot.timestamp >>

Parse(text) == [headlines |-> text[1], timestamp |-> text[2]]

\* localStorage when the browser denies access to it: getItem and setItem
\* throw.
Denied == << <<>>, <<>> >>

\* A stored text that JSON.parse throws on.
NotJson == << "not json" >>

\* JSON.parse returns an object for a text of two fields.
IsJson(text) == Len(text) = 2

\* The value of data.headlines when the parsed object has no such field.
NotAList == << << "undefined", 0 >> >>

IsList(h) == h # NotAList

\* A list whose only element is an object with none of a headline's fields.
BlankItems == << << "", 1 >> >>

\* The test of loadFromCache: Date.now() - data.timestamp < 3600000
FreshInclusive(t, timestamp) == t - timestamp <= CacheMaxAge

Fresh(t, timestamp) == t - timestamp < CacheMaxAge

\* The list renderHeadlines appends to the (emptied) ticker list.
RenderedItems(h) == h \o h

\* tickerList.scrollWidth for a list of elements
ScrollWidth(list) == Len(list) * itemWidth

\* this.tickerList has been set (setupTicker has run)
TickerListSet == phase = "live"

\* this.offlineBadge has been set (setupTicker has run)
OfflineBadgeSet == phase = "live"

CycleWindow == Len(serviceCycle) + 1

Logged(log, i) ==
  LET full == Append(log, [index |-> i, service |-> CycleAt(i).service])
  IN  IF Len(full) > CycleWindow THEN Tail(full) ELSE full

CanFetch == BagCardinality(inflight) < MaxInflight

\* --------------------------------------------------------- loadHeadlines
\* The synchronous part of loadHeadlines: the request is built from the
\* service selected at the call and handed to fetch.
loadHeadlines(service) ==
  inflight' = inflight (+) SetToBag({Endpoint(service)})

saveToCache(h) ==
  storage' = IF storage = Denied
             THEN storage
             ELSE << Stringify([headlines |-> h, timestamp |-> now]) >>

renderHeadlines(h) ==
  IF ~TickerListSet \/ Len(h) = 0
  THEN UNCHANGED << rendered, storage, currentPosition, stepsRun >>
  ELSE /\ rendered' = RenderedItems(h)
       /\ saveToCache(h)
       /\ currentPosition' = 0
       /\ stepsRun' = 0

\* An exception (getItem, JSON.parse, or renderHeadlines reading the length
\* of what is not a list) ends loadFromCache in its catch block, after the
\* assignments already made.
loadFromCache ==
  IF /\ storage # Denied
     /\ storage # <<>>
     /\ IsJson(storage[1])
     /\ Fresh(now, Parse(storage[1]).timestamp)
  THEN /\ headlines' = Parse(storage[1]).headlines
       /\ IF IsList(headlines')
          THEN renderHeadlines(headlines')
          ELSE UNCHANGED << rendered, storage, currentPosition, stepsRun >>
  ELSE UNCHANGED << headlines, rendered, storage, currentPosition, stepsRun >>

\* The catch block of loadHeadlines.  Before setupTicker has run,
\* this.offlineBadge is undefined and the assignment to its style throws
\* out of the catch block: the promise of loadHeadlines rejects.
loadHeadlinesCatch ==
  /\ offlineMode' = TRUE
  /\ IF OfflineBadgeSet
     THEN /\ badgeDisplay' = "block"
          /\ loadFromCache
          /\ UNCHANGED rejected
     ELSE /\ rejected' = TRUE
          /\ UNCHANGED << badgeDisplay, rendered, storage, currentPosition,
                          stepsRun >>

\* The fetch for query q resolves with status ok and the list `response`.
\* Before setupTicker has run, the assignment to the badge's style throws
\* after headlines and offlineMode are assigned, and the catch block runs.
FetchSucceeds(q, response) ==
  /\ BagIn(q, inflight)
  /\ inflight' = inflight (-) SetToBag({q})
  /\ headlines' = Slice(response, maxHeadlines)
  /\ lastFetch' = "ok"
  /\ IF OfflineBadgeSet
     THEN /\ offlineMode' = FALSE
          /\ badgeDisplay' = "none"
          /\ renderHeadlines(headlines')
          /\ UNCHANGED rejected
     ELSE loadHeadlinesCatch
  /\ UNCHANGED << phase, dom, destroyed, currentServiceIndex, currentService,
                  btnLabel, hidden, isPaused, animationId, framePending,
                  timerActive, now, cycleLog >>
  /\ UNCHANGED outside

\* The fetch for query q rejects, or resolves with a status that is not ok,
\* or with a body that is not JSON or not a list: the catch block runs
\* before anything is assigned.
FetchFails(q) ==
  /\ BagIn(q, inflight)
  /\ inflight' = inflight (-) SetToBag({q})
  /\ lastFetch' = "failed"
  /\ loadHeadlinesCatch
  /\ IF OfflineBadgeSet THEN TRUE ELSE UNCHANGED headlines
  /\ UNCHANGED << phase, dom, destroyed, currentServiceIndex, currentService,
                  btnLabel, hidden, isPaused, animationId, framePending,
                  timerActive, now, cycleLog >>
  /\ UNCHANGED outside

\* The callback of setInterval(() => this.loadHeadlines(), 300000)
TimerTick ==
  /\ timerActive
  /\ CanFetch
  /\ loadHeadlines(currentService)
  /\ UNCHANGED << phase, dom, destroyed, currentServiceIndex, currentService,
                  btnLabel, hidden, headlines, rendered, offlineMode, isPaused,
                  currentPosition, animationId, framePending, timerActive,
                  storage, now, cycleLog >>
  /\ UNCHANGED << badgeDisplay, stepsRun, lastFetch, rejected >>
  /\ UNCHANGED outside

\* ------------------------------------------------------ service selector
\* A toggleTickerVisibility that restores the label the button was created
\* with.
toggleTickerVisibilityFirstLabel ==
  IF hidden
  THEN /\ hidden' = FALSE
       /\ btnLabel' = CycleAt(0).label
  ELSE /\ hidden' = TRUE
       /\ btnLabel' = HiddenGlyph

toggleTickerVisibility ==
  IF hidden
  THEN /\ hidden' = FALSE
       /\ btnLabel' = CycleAt(currentServiceIndex).label
  ELSE /\ hidden' = TRUE
       /\ btnLabel' = HiddenGlyph

cycleToNextService ==
  /\ currentServiceIndex' = NextIndex(currentServiceIndex)
  /\ btnLabel' = CycleAt(currentServiceIndex').label
  /\ currentService' = CycleAt(currentServiceIndex').service
  /\ loadHeadlines(currentService')
  /\ cycleLog' = Logged(cycleLog, currentServiceIndex')

\* The button's listeners run while the button is in the document.
ButtonInDocument == phase = "live" /\ dom

\* click listener of #news-service-btn
SelectorClick ==
  /\ ButtonInDocument
  /\ IF hidden
     THEN /\ toggleTickerVisibility
          /\ UNCHANGED << currentServiceIndex, currentService, inflight,
                          cycleLog >>
     ELSE /\ CanFetch
          /\ cycleToNextService
          /\ UNCHANGED hidden
  /\ UNCHANGED << phase, dom, destroyed, headlines, rendered, offlineMode,
                  isPaused, currentPosition, animationId, framePending,
                  timerActive, storage, now >>
  /\ UNCHANGED << badgeDisplay, stepsRun, lastFetch, rejected >>
  /\ UNCHANGED outside

\* A dblclick listener that, like the click listener, also advances the cycle.
SelectorDblClickCycles ==
  /\ ButtonInDocument
  /\ CanFetch
  /\ hidden' = ~hidden
  /\ cycleToNextService
  /\ UNCHANGED << phase, dom, destroyed, headlines, rendered, offlineMode,
                  isPaused, currentPosition, animationId, framePending,
                  timerActive, storage, now >>
  /\ UNCHANGED << badgeDisplay, stepsRun, lastFetch, rejected >>
  /\ UNCHANGED outside

\* dblclick listener of #news-service-btn
SelectorDblClick ==
  /\ ButtonInDocument
  /\ toggleTickerVisibility
  /\ UNCHANGED << phase, dom, destroyed, currentServiceIndex, currentService,
                  headlines, rendered, offlineMode, isPaused, currentPosition,
                  animationId, framePending, timerActive, inflight, storage,
                  now, cycleLog >>
  /\ UNCHANGED << badgeDisplay, stepsRun, lastFetch, rejected >>
  /\ UNCHANGED outside

\* ------------------------------------------------------------ pause/resume
\* mouseenter listener of the container: pause()
MouseEnter ==
  /\ phase = "live"
  /\ isPaused' = TRUE
  /\ UNCHANGED << phase, dom, destroyed, currentServiceIndex, currentService,
                  btnLabel, hidden, headlines, rendered, offlineMode,
                  currentPosition, animationId, framePending, timerActive,
                  inflight, storage, now, cycleLog >>
  /\ UNCHANGED << badgeDisplay, stepsRun, lastFetch, rejected >>
  /\ UNCHANGED outside

\* mouseleave listener of the container: resume()
MouseLeave ==
  /\ phase = "live"
  /\ isPaused' = FALSE
  /\ UNCHANGED << phase, dom, destroyed, currentServiceIndex, currentService,
                  btnLabel, hidden, headlines, rendered, offlineMode,
                  currentPosition, animationId, framePending, timerActive,
                  inflight, storage, now, cycleLog >>
  /\ UNCHANGED << badgeDisplay, stepsRun, lastFetch, rejected >>
  /\ UNCHANGED outside

\* -------------------------------------------------------------- animation
\* An animate() that loops around only once the position is past the width.
SteppedPastWidth(pos, w) ==
  LET moved == pos - optionsSpeed \div FramesPerSecond
  IN  IF Abs(moved) > w \div 2 THEN 0 ELSE moved

\* An animate() that moves by options.speed pixels in every frame.
SteppedPerSecond(pos, w) ==
  LET moved == pos - optionsSpeed
  IN  IF Abs(moved) >= w \div 2 THEN 0 ELSE moved

\* One run of animate() from position pos over a list whose width is w.
\* options.speed is a multiple of 60 here, so that speed / 60 is a whole
\* number of pixels.
Stepped(pos, w) ==
  LET moved == pos - optionsSpeed \div FramesPerSecond
  IN  IF Abs(moved) >= w \div 2 THEN 0 ELSE moved

\* An animate() that requests the next frame only while the content is shown.
AnimationFrameVisibleOnly ==
  /\ framePending
  /\ currentPosition' =
       IF isPaused THEN currentPosition
       ELSE Stepped(currentPosition, ScrollWidth(rendered))
  /\ animationId' = TRUE
  /\ framePending' = ~hidden
  /\ UNCHANGED << phase, dom, destroyed, currentServiceIndex, currentService,
                  btnLabel, hidden, headlines, rendered, offlineMode, isPaused,
                  timerActive, inflight, storage, now, cycleLog >>
  /\ stepsRun' =
       IF isPaused THEN stepsRun
       ELSE IF currentPosition' = 0 THEN 0 ELSE stepsRun + 1
  /\ UNCHANGED << badgeDisplay, lastFetch, rejected >>
  /\ UNCHANGED outside

\* The browser runs the requested animation frame.
AnimationFrame ==
  /\ framePending
  /\ currentPosition' =
       IF isPaused THEN currentPosition
       ELSE Stepped(currentPosition, ScrollWidth(rendered))
  /\ animationId' = TRUE
  /\ framePending' = TRUE
  /\ UNCHANGED << phase, dom, destroyed, currentServiceIndex, currentService,
                  btnLabel, hidden, headlines, rendered, offlineMode, isPaused,
                  timerActive, inflight, storage, now, cycleLog >>
  /\ stepsRun' =
       IF isPaused THEN stepsRun
       ELSE IF currentPosition' = 0 THEN 0 ELSE stepsRun + 1
  /\ UNCHANGED << badgeDisplay, lastFetch, rejected >>
  /\ UNCHANGED outside

\* ----------------------------------------------------------------- destroy
destroy ==
  /\ framePending' = IF animationId THEN FALSE ELSE framePending
  /\ dom' = IF phase = "aborted" THEN dom ELSE FALSE
  /\ destroyed' = TRUE
  /\ UNCHANGED << phase, currentServiceIndex, currentService, btnLabel,
                  hidden, headlines, rendered, offlineMode, isPaused,
                  currentPosition, animationId, timerActive, inflight,
                  storage, now, cycleLog >>
  /\ UNCHANGED << badgeDisplay, stepsRun, lastFetch, rejected >>
  /\ UNCHANGED outside

\* -------------------------------------------------------------------- init
\* init() from setupTicker() to its end, run on the state the constructor
\* left: setupTicker, setupServiceSelector, loadHeadlines, startAnimation
\* (whose first animate() runs at once, over the empty list), setInterval.
FontLoaded ==
  /\ phase = "font"
  /\ phase' = "live"
  /\ dom' = TRUE
  /\ btnLabel' = "Sports"
  /\ hidden' = FALSE
  /\ currentServiceIndex' = 0
  /\ currentService' = "sports"
  /\ cycleLog' = Logged(<<>>, 0)
  /\ loadHeadlines(currentService')
  /\ currentPosition' = Stepped(currentPosition, ScrollWidth(<<>>))
  /\ animationId' = TRUE
  /\ framePending' = TRUE
  /\ timerActive' = TRUE
  /\ UNCHANGED << destroyed, headlines, rendered, offlineMode, isPaused,
                  storage, now >>
  /\ badgeDisplay' = "none"
  /\ stepsRun' = 0
  /\ UNCHANGED << lastFetch, rejected >>
  /\ UNCHANGED outside

\* loadFont rejects: init()'s catch logs the error and init ends.
FontFailed ==
  /\ phase = "font"
  /\ phase' = "failed"
  /\ UNCHANGED << dom, destroyed, currentServiceIndex, currentService,
                  btnLabel, hidden, headlines, rendered, offlineMode, isPaused,
                  currentPosition, animationId, framePending, timerActive,
                  inflight, storage, now, cycleLog >>
  /\ UNCHANGED << badgeDisplay, stepsRun, lastFetch, rejected >>
  /\ UNCHANGED outside

\* Time passes.
Elapse ==
  /\ now + TimeStep <= MaxNow
  /\ now' = now + TimeStep
  /\ UNCHANGED << phase, dom, destroyed, currentServiceIndex, currentService,
                  btnLabel, hidden, headlines, rendered, offlineMode, isPaused,
                  currentPosition, animationId, framePending, timerActive,
                  inflight, storage, cycleLog >>
  /\ UNCHANGED << badgeDisplay, stepsRun, lastFetch, rejected >>
  /\ UNCHANGED outside

\* ----------------------------------------------------------- construction
\* The fields the constructor sets before it calls init().
Constructed ==
  /\ headlines = <<>>
  /\ isPaused = FALSE
  /\ offlineMode = FALSE
  /\ destroyed = FALSE
  /\ rendered = <<>>
  /\ now = 0
  /\ stepsRun = 0
  /\ lastFetch = "none"
  /\ rejected = FALSE

\* An init() that looks for the mount target only after it has started the
\* first load and the refresh timer.
InitAbortedLate ==
  /\ phase = "aborted"
  /\ dom = FALSE
  /\ badgeDisplay = "absent"
  /\ currentServiceIndex = Undefined
  /\ currentService = "news"
  /\ btnLabel = ""
  /\ hidden = FALSE
  /\ currentPosition = 0
  /\ animationId = FALSE
  /\ framePending = FALSE
  /\ timerActive = TRUE
  /\ inflight = SetToBag({Endpoint("news")})
  /\ cycleLog = <<>>

\* init() returned at once: the mount target is not in the document.
InitAborted ==
  /\ phase = "aborted"
  /\ dom = FALSE
  /\ badgeDisplay = "absent"
  /\ currentServiceIndex = Undefined
  /\ currentService = "news"
  /\ btnLabel = ""
  /\ hidden = FALSE
  /\ currentPosition = 0
  /\ animationId = FALSE
  /\ framePending = FALSE
  /\ timerActive = FALSE
  /\ inflight = EmptyBag
  /\ cycleLog = <<>>

\* init() is suspended at `await this.loadFont(...)`: options.fontCss is set.
InitAwaitingFont ==
  /\ phase = "font"
  /\ dom = FALSE
  /\ badgeDisplay = "absent"
  /\ currentServiceIndex = Undefined
  /\ currentService = "news"
  /\ btnLabel = ""
  /\ hidden = FALSE
  /\ currentPosition = 0
  /\ animationId = FALSE
  /\ framePending = FALSE
  /\ timerActive = FALSE
  /\ inflight = EmptyBag
  /\ cycleLog = <<>>

\* init() ran to its end inside the constructor: no font to load.
InitLive ==
  /\ phase = "live"
  /\ dom = TRUE
  /\ badgeDisplay = "none"
  /\ currentServiceIndex = 0
  /\ currentService = "sports"
  /\ btnLabel = "Sports"
  /\ hidden = FALSE
  /\ currentPosition = Stepped(0, ScrollWidth(<<>>))
  /\ animationId = TRUE
  /\ framePending = TRUE
  /\ timerActive = TRUE
  /\ inflight = SetToBag({Endpoint("sports")})
  /\ cycleLog = Logged(<<>>, 0)

\* What localStorage holds when the page loads: nothing, or the snapshot an
\* earlier page of the same origin saved.
EarlierSnapshots ==
  { Stringify([headlines |-> Feed(SourceFile("news"), 1), timestamp |-> 0]) }

\* The page has no playlist and no player element: video.js has been loaded
\* and nothing else.
NoVideo ==
  /\ videoPlaylist = <<>>
  /\ videoCurrentIndex = 0
  /\ videoIsPlaying = FALSE
  /\ videoIframe = <<>>

\* formatTimeAgo has not been called on its own.
NoCall ==
  /\ timestampArg = 0
  /\ timeAgo = <<>>

\* The widget is constructed without a speed option, in the page's layout.
DefaultOptions ==
  /\ optionsSpeed = speed
  /\ itemWidth = ItemWidth

Init ==
  /\ Constructed
  /\ DefaultOptions
  /\ storage \in {<<>>} \cup {<< text >> : text \in EarlierSnapshots}
  /\ \/ InitAborted
     \/ InitAwaitingFont
     \/ InitLive
  /\ NoVideo
  /\ NoCall

Queries == {Endpoint(s) : s \in Services}

Next ==
  \/ FontLoaded
  \/ FontFailed
  \/ SelectorClick
  \/ SelectorDblClick
  \/ MouseEnter
  \/ MouseLeave
  \/ AnimationFrame
  \/ TimerTick
  \/ \E q \in Queries : \E response \in Responses(q) : FetchSucceeds(q, response)
  \/ \E q \in Queries : FetchFails(q)
  \/ Elapse
  \/ destroy

Spec == Init /\ [][Next]_vars

\* ------------------------------------------------------------ video player
\* A URL is what precedes the place where a video id may stand and the
\* characters from there on.
KnownPrefixes ==
  { "youtube.com/watch?v=", "youtu.be/", "youtube.com/embed/", "youtube.com/v/" }

Prefixes == KnownPrefixes \cup { "vimeo.com/" }

Rests == { <<>>, << "a" >>, << "a", "&", "t" >>, << "?", "a" >> }

Urls == { [prefix |-> p, rest |-> r] : p \in Prefixes, r \in Rests }

\* The longest prefix matched by [^\s&?]*
RECURSIVE IdChars(_)
IdChars(rest) ==
  IF rest = <<>> \/ Head(rest) \in { " ", "&", "?" }
  THEN <<>>
  ELSE << Head(rest) >> \o IdChars(Tail(rest))

\* null is the empty sequence: like the empty string it is falsy, and no
\* pattern matches an empty id.
extractYouTubeId(url) ==
  IF url.prefix \in KnownPrefixes THEN IdChars(url.rest) ELSE <<>>

EmbedUrl(videoId) == [prefix |-> "youtube.com/embed/", rest |-> videoId]

videoPlayVideo(index) ==
  IF index < 0 \/ index >= Len(videoPlaylist)
  THEN UNCHANGED videoVars
  ELSE LET videoId == extractYouTubeId(videoPlaylist[index + 1])
       IN  /\ videoCurrentIndex' = index
           /\ IF videoId # <<>> /\ videoIframe # <<>>
              THEN /\ videoIframe' = [src |-> EmbedUrl(videoId),
                                      display |-> "block"]
                   /\ videoIsPlaying' = TRUE
              ELSE UNCHANGED << videoIframe, videoIsPlaying >>
           /\ UNCHANGED videoPlaylist

\* The indexes videoPlayVideo is called with: one before the playlist's
\* first and one after its last among them.
PlayIndexes == (0 - 1)..MaxPlaylist

PlayVideo ==
  /\ \E index \in PlayIndexes : videoPlayVideo(index)
  /\ UNCHANGED << tickerVars, optionsSpeed, itemWidth, timeAgoVars >>

forceCloseVideo ==
  /\ videoIframe' = IF videoIframe = <<>> THEN videoIframe
                    ELSE [videoIframe EXCEPT !.display = "none"]
  /\ videoIsPlaying' = FALSE
  /\ UNCHANGED << videoPlaylist, videoCurrentIndex >>
  /\ UNCHANGED << tickerVars, optionsSpeed, itemWidth, timeAgoVars >>

NoSrc == [prefix |-> "", rest |-> <<>>]

\* The page has a playlist, and a hidden #videoIframe or none; nothing has
\* been played and the first entry is the current one.
InitVideo ==
  /\ Constructed
  /\ DefaultOptions
  /\ storage = <<>>
  /\ InitAborted
  /\ NoCall
  /\ videoPlaylist \in UNION {[1..n -> Urls] : n \in 1..MaxPlaylist}
  /\ videoCurrentIndex = 0
  /\ videoIsPlaying = FALSE
  /\ videoIframe \in { <<>>, [src |-> NoSrc, display |-> "none"] }

NextVideo ==
  \/ PlayVideo
  \/ forceCloseVideo

SpecVideo == InitVideo /\ [][NextVideo]_vars

\* ---------------------------------------------------------- formatTimeAgo
\* The decimal digits of n >= 0, as a template literal writes a number.
RECURSIVE Decimal(_)
Decimal(n) == IF n < 10 THEN << n >> ELSE Append(Decimal(n \div 10), n % 10)

\* A formatTimeAgo that still counts hours at 24 hours.
formatTimeAgoLateDays(timestamp) ==
  LET diff    == now - timestamp
      minutes == diff \div 60000
      hours   == diff \div 3600000
      days    == diff \div 86400000
  IN  IF minutes < 1 THEN << "now" >>
      ELSE IF minutes < 60 THEN << Decimal(minutes), "m ago" >>
      ELSE IF hours <= 24 THEN << Decimal(hours), "h ago" >>
      ELSE << Decimal(days), "d ago" >>

\* The label is the pair of the number's digits and the suffix; Math.floor
\* of a quotient is \div, for negative differences too.
formatTimeAgo(timestamp) ==
  LET diff    == now - timestamp
      minutes == diff \div 60000
      hours   == diff \div 3600000
      days    == diff \div 86400000
  IN  IF minutes < 1 THEN << "now" >>
      ELSE IF minutes < 60 THEN << Decimal(minutes), "m ago" >>
      ELSE IF hours < 24 THEN << Decimal(hours), "h ago" >>
      ELSE << Decimal(days), "d ago" >>

\* The ages formatTimeAgo is called with: whole seconds, minutes and hours,
\* the millisecond before and the half unit after each.
Ages ==
  { m * u + o : m \in 0..MaxAge, u \in {1000, 60000, 3600000},
                o \in {0 - 1, 0, 500, 30000} }

CallFormatTimeAgo ==
  /\ timeAgo = <<>>
  /\ timeAgo' = formatTimeAgo(timestampArg)
  /\ UNCHANGED << timestampArg, videoVars, optionsSpeed, itemWidth >>
  /\ UNCHANGED << phase, dom, destroyed, currentServiceIndex, currentService,
                  btnLabel, hidden, headlines, rendered, offlineMode, isPaused,
                  currentPosition, animationId, framePending, timerActive,
                  inflight, storage, now, cycleLog >>
  /\ UNCHANGED << badgeDisplay, stepsRun, lastFetch, rejected >>

\* The caller takes the label; the next headline's timestamp is formatted.
NextTimestamp ==
  /\ timeAgo # <<>>
  /\ timeAgo' = <<>>
  /\ timestampArg' \in {now - age : age \in Ages}
  /\ UNCHANGED << videoVars, optionsSpeed, itemWidth >>
  /\ UNCHANGED << phase, dom, destroyed, currentServiceIndex, currentService,
                  btnLabel, hidden, headlines, rendered, offlineMode, isPaused,
                  currentPosition, animationId, framePending, timerActive,
                  inflight, storage, now, cycleLog >>
  /\ UNCHANGED << badgeDisplay, stepsRun, lastFetch, rejected >>

InitTimeAgo ==
  /\ Constructed
  /\ DefaultOptions
  /\ storage = <<>>
  /\ InitLive
  /\ NoVideo
  /\ timestampArg \in {now - age : age \in Ages}
  /\ timeAgo = <<>>

NextTimeAgo ==
  \/ CallFormatTimeAgo
  \/ NextTimestamp

SpecTimeAgo == InitTimeAgo /\ [][NextTimeAgo]_vars

\* -------------------------------------------- the widget that never mounts
\* The page keeps the object the constructor returned although init() ended
\* before setupTicker (no mount target, or the font did not load), and calls
\* its public methods.
refresh ==
  /\ CanFetch
  /\ loadHeadlines(currentService)
  /\ UNCHANGED << phase, dom, destroyed, currentServiceIndex, currentService,
                  btnLabel, hidden, headlines, rendered, offlineMode, isPaused,
                  currentPosition, animationId, framePending, timerActive,
                  storage, now, cycleLog >>
  /\ UNCHANGED << badgeDisplay, stepsRun, lastFetch, rejected >>
  /\ UNCHANGED outside

InitUnmounted ==
  /\ Constructed
  /\ DefaultOptions
  /\ storage \in {<<>>} \cup {<< text >> : text \in EarlierSnapshots}
  /\ \/ InitAborted
     \/ InitAwaitingFont
  /\ NoVideo
  /\ NoCall

NextUnmounted ==
  \/ FontFailed
  \/ refresh
  \/ \E q \in Queries : \E response \in Responses(q) : FetchSucceeds(q, response)
  \/ \E q \in Queries : FetchFails(q)
  \/ Elapse
  \/ destroy

SpecUnmounted == InitUnmounted /\ [][NextUnmounted]_vars

\* ------------------------------------------- the cache, in any condition
\* A mounted widget whose cache may be denied or hold what this page did not
\* write: localStorage is shared with every page of the origin.
CorruptTexts(t) == { NotJson, << NotAList, t >>, << BlankItems, t >> }

OtherPageWrites ==
  /\ storage # Denied
  /\ storage' \in {<< text >> : text \in CorruptTexts(now)}
  /\ UNCHANGED << phase, dom, destroyed, currentServiceIndex, currentService,
                  btnLabel, hidden, headlines, rendered, offlineMode, isPaused,
                  currentPosition, animationId, framePending, timerActive,
                  inflight, now, cycleLog >>
  /\ UNCHANGED << badgeDisplay, stepsRun, lastFetch, rejected >>
  /\ UNCHANGED outside

InitCache ==
  /\ Constructed
  /\ DefaultOptions
  /\ storage \in {<<>>, Denied}
                  \cup {<< text >> : text \in EarlierSnapshots \cup CorruptTexts(0)}
  /\ InitLive
  /\ NoVideo
  /\ NoCall

NextCache ==
  \/ TimerTick
  \/ \E q \in Queries : \E response \in Responses(q) : FetchSucceeds(q, response)
  \/ \E q \in Queries : FetchFails(q)
  \/ OtherPageWrites
  \/ Elapse

SpecCache == InitCache /\ [][NextCache]_vars

\* ------------------------------------------------ the animation, at length
\* A mounted widget in a narrow or a wide layout, constructed with a speed
\* option, that is hovered, scrolls and reloads.
Speeds == {speed, 2 * speed}

Widths == {ItemWidth, WideItem}

InitAnim ==
  /\ Constructed
  /\ optionsSpeed \in Speeds
  /\ itemWidth \in Widths
  /\ storage = <<>>
  /\ InitLive
  /\ NoVideo
  /\ NoCall

NextAnim ==
  \/ AnimationFrame
  \/ MouseEnter
  \/ MouseLeave
  \/ TimerTick
  \/ \E q \in Queries : \E response \in Responses(q) : FetchSucceeds(q, response)
  \/ \E q \in Queries : FetchFails(q)

SpecAnim == InitAnim /\ [][NextAnim]_vars

\* ================================================================= claims

\* A fetch has completed in this step (its promise resolved or rejected).
FetchCompletes == BagCardinality(inflight') < BagCardinality(inflight)

\* C1: a click on the selector while the content is visible advances
\* currentServiceIndex from i to (i + 1) mod 5, sets currentService and the
\* button's label to the new entry's identifier and label, and starts exactly
\* one fetch, whose request the server answers for the new service.
C1_ClickAdvancesService ==
  [][ (SelectorClick /\ ~hidden) =>
        LET i == (currentServiceIndex + 1) % 5
        IN  /\ currentServiceIndex' = i
            /\ currentService' = serviceCycle[i + 1].service
            /\ btnLabel' = serviceCycle[i + 1].label
            /\ \E q \in Queries :
                 /\ inflight' = inflight (+) SetToBag({q})
                 /\ RequestedService(q) = serviceCycle[i + 1].service
            /\ BagCardinality(inflight') = BagCardinality(inflight) + 1 ]_vars

C1_Witness ==
  /\ ~hidden
  /\ currentServiceIndex = 1
  /\ currentService = "local"
  /\ btnLabel = "Local"
  /\ inflight = SetToBag({"sports"}) (+) SetToBag({"local"})

CycleOrder == << "sports", "local", "news", "weather", "tweets" >>

\* C3: five advances of the service cycle lead back to the index and the
\* service they started from and fewer than five never do; the order is
\* sports, local, news, weather, tweets, from sports after setup.
\* (cycleLog holds the last CycleWindow = 6 entries visited.)
C3_CycleClosure ==
  /\ \A k \in 1..Len(cycleLog) :
       /\ cycleLog[k].index \in 0..4
       /\ cycleLog[k].service = CycleOrder[cycleLog[k].index + 1]
  /\ \A k \in 1..(Len(cycleLog) - 1) :
       cycleLog[k + 1].index = (cycleLog[k].index + 1) % 5
  /\ \A j, k \in 1..Len(cycleLog) :
       /\ k - j = 5 => cycleLog[k] = cycleLog[j]
       /\ (0 < k - j /\ k - j < 5) =>
            /\ cycleLog[k].index # cycleLog[j].index
            /\ cycleLog[k].service # cycleLog[j].service
  /\ (cycleLog # <<>> /\ Len(cycleLog) < CycleWindow) =>
       cycleLog[1] = [index |-> 0, service |-> "sports"]
  /\ cycleLog # <<>> =>
       cycleLog[Len(cycleLog)] =
         [index |-> currentServiceIndex, service |-> currentService]

C3_Witness ==
  /\ Len(cycleLog) = 6
  /\ cycleLog[1] = [index |-> 3, service |-> "weather"]
  /\ currentServiceIndex = 3
  /\ currentService = "weather"

\* C4: every run of toggleTickerVisibility flips the hidden flag of the
\* content and leaves headlines, currentServiceIndex, currentService,
\* isPaused, currentPosition and the animation loop as they were; the loop
\* goes on stepping while the content is hidden.
C4_ToggleFrame ==
  /\ [][ ((SelectorClick /\ hidden) \/ SelectorDblClick \/ hidden' # hidden) =>
           /\ hidden' = ~hidden
           /\ UNCHANGED << headlines, rendered, currentServiceIndex,
                           currentService, isPaused, currentPosition,
                           animationId, framePending >> ]_vars
  /\ [][ (AnimationFrame /\ hidden) =>
           /\ framePending'
           /\ ~isPaused =>
                currentPosition' = Stepped(currentPosition, ScrollWidth(rendered))
       ]_vars
  /\ [](hidden /\ dom => framePending)

C4_Witness ==
  /\ hidden
  /\ dom
  /\ framePending
  /\ ~isPaused
  /\ currentPosition < 0
  /\ headlines # <<>>

\* C5: when a fetch succeeds with a list (of any length, the empty list
\* included), headlines becomes the first min(length, maxHeadlines) entries
\* of the list in order, offlineMode becomes false and the stored snapshot
\* holds exactly that list.
C5_SuccessStoresResponse ==
  [][ \A q \in Queries : \A response \in Responses(q) :
        FetchSucceeds(q, response) =>
          /\ Len(headlines') = Min(Len(response), maxHeadlines)
          /\ \A k \in 1..Len(headlines') : headlines'[k] = response[k]
          /\ offlineMode' = FALSE
          /\ storage' # <<>>
          /\ Parse(storage'[1]).headlines = headlines' ]_vars

\* The stored snapshot can be used at time t.
Usable(store, t) ==
  /\ store # <<>>
  /\ t - Parse(store[1]).timestamp < 3600000

\* C6: when a fetch fails offlineMode becomes true; a snapshot less than one
\* hour old replaces headlines; with no snapshot, or one that is one hour old
\* or older, headlines and the rendered list stay as they were.
C6_FailureFallsBack ==
  [][ \A q \in Queries :
        FetchFails(q) =>
          /\ offlineMode' = TRUE
          /\ Usable(storage, now) =>
               headlines' = Parse(storage[1]).headlines
          /\ ~Usable(storage, now) =>
               UNCHANGED << headlines, rendered >> ]_vars

\* A snapshot of another page load replaced the (empty) headlines of a widget
\* that never fetched successfully.
C6_Witness ==
  /\ offlineMode
  /\ now > 0
  /\ headlines = Feed("news.txt", 1)
  /\ rendered = headlines \o headlines
  /\ currentService = "sports"
  /\ Len(cycleLog) = 1

\* C7: in every reachable state the rendered list is two copies of
\* headlines, one after the other: 2N items for N headlines.
C7_RenderedIsTwoCopies ==
  /\ Len(rendered) = 2 * Len(headlines)
  /\ \A k \in 1..Len(headlines) :
       /\ rendered[k] = headlines[k]
       /\ rendered[Len(headlines) + k] = headlines[k]

\* C8: after destroy no animation step runs and currentPosition does not
\* change any more; before destroy every step schedules the next one.
C8_DestroyStopsAnimation ==
  [][ /\ destroyed => (~AnimationFrame /\ ~framePending' /\
                       currentPosition' = currentPosition)
      /\ (~destroyed' /\ framePending) => framePending' ]_vars

\* C9: after destroy the periodic timer starts no fetch.
C9_DestroyClearsTimer ==
  [][ destroyed => ~TimerTick ]_vars

\* C10: a fetch that completes after destroy is discarded: headlines,
\* offlineMode, the rendered list, currentPosition and the stored snapshot
\* are after its completion what they were before.
C10_LateResultDiscarded ==
  [][ (destroyed /\ FetchCompletes) =>
        UNCHANGED << headlines, offlineMode, rendered, currentPosition,
                     storage >> ]_vars

\* The width of one copy of the rendered list: tickerList.scrollWidth / 2.
CopyWidth == ScrollWidth(rendered) \div 2

\* C11: an animation step taken while isPaused is true leaves
\* currentPosition unchanged; a step taken while isPaused is false that does
\* not reach the loop-around reset decreases currentPosition by exactly
\* speed / 60, so that a run of unpaused steps without reset has moved by
\* steps * speed / 60 (sixty steps at speed 60: exactly 60 pixels); pause and
\* resume set and clear isPaused and assign nothing else.
C11_StepSize ==
  /\ [][ (AnimationFrame /\ isPaused) => currentPosition' = currentPosition ]_vars
  /\ [][ ( /\ AnimationFrame
           /\ ~isPaused
           /\ Abs(currentPosition * FramesPerSecond - optionsSpeed)
                < CopyWidth * FramesPerSecond )
         => currentPosition' * FramesPerSecond =
              currentPosition * FramesPerSecond - optionsSpeed ]_vars
  /\ [](currentPosition * FramesPerSecond = 0 - stepsRun * optionsSpeed)
  /\ [][ MouseEnter => isPaused' /\ currentPosition' = currentPosition ]_vars
  /\ [][ MouseLeave => ~isPaused' /\ currentPosition' = currentPosition ]_vars

\* Sixty unpaused steps at speed 60 have run since the last reset, the last
\* of them just now or before a pause.
C11_Witness ==
  /\ optionsSpeed = speed
  /\ stepsRun = FramesPerSecond
  /\ currentPosition = 0 - speed
  /\ isPaused

\* A step in which renderHeadlines rebuilds the list: a fetch resolved with a
\* list that is not empty, or failed while the cache holds a usable snapshot.
Renders ==
  \/ \E q \in Queries : \E response \in Responses(q) :
       FetchSucceeds(q, response) /\ Len(headlines') > 0
  \/ \E q \in Queries : FetchFails(q) /\ Usable(storage, now)

\* C12: with W the width of one copy of the rendered list and a positive
\* speed, currentPosition is 0 or lies strictly between -W and 0 (so it is 0
\* when W = 0); it never increases except by being reset to 0; an unpaused
\* step whose move would reach abs(currentPosition) >= W resets it to 0; and
\* every render resets it to 0.
C12_PositionRange ==
  /\ [](\/ currentPosition = 0
        \/ (0 - CopyWidth < currentPosition /\ currentPosition < 0))
  /\ [][ currentPosition' <= currentPosition \/ currentPosition' = 0 ]_vars
  /\ [][ ( /\ AnimationFrame
           /\ ~isPaused
           /\ Abs(currentPosition * FramesPerSecond - optionsSpeed)
                >= CopyWidth * FramesPerSecond )
         => currentPosition' = 0 ]_vars
  /\ [][ Renders => currentPosition' = 0 ]_vars

\* The list has scrolled to the last position before the loop-around of a
\* wide copy.
C12_Witness ==
  /\ CopyWidth >= WideItem
  /\ currentPosition = optionsSpeed \div FramesPerSecond - CopyWidth
  /\ lastFetch = "ok"

\* The cache cannot be read, or holds a text that is not JSON, or a snapshot
\* whose headlines field is missing or is not a list of headlines.
CacheFailure ==
  \/ storage = Denied
  \/ /\ storage # <<>>
     /\ \/ ~IsJson(storage[1])
        \/ ~IsList(Parse(storage[1]).headlines)
        \/ Parse(storage[1]).headlines = BlankItems

\* C13: a fallback that meets a cache failure (storage unavailable, a text
\* that does not parse, a snapshot with missing or ill-formed fields) leaves
\* headlines and the rendered list exactly as they were, and no error
\* reaches the caller of loadFromCache.
C13_CacheFailureIsAbsence ==
  [][ ((\E q \in Queries : FetchFails(q)) /\ CacheFailure)
        => UNCHANGED << headlines, rendered, rejected >> ]_vars

\* C14: whatever the outcome of the fetch and whatever the state of the
\* widget on which loadHeadlines is called (a widget whose mount target was
\* missing and a destroyed widget included), loadHeadlines ends normally: no
\* promise of loadHeadlines ever rejects.
C14_NeverRejects == ~rejected

\* C15: when the mount target is absent init() has returned at its first
\* test, and it stays so: no fetch is in flight, no refresh timer exists, no
\* animation frame is requested or stored, and headlines, offlineMode and
\* currentPosition have their initial values, however much time passes.
C15_AbortedInitStartsNothing ==
  phase = "aborted" =>
    /\ inflight = EmptyBag
    /\ ~timerActive
    /\ ~framePending
    /\ ~animationId
    /\ headlines = <<>>
    /\ rendered = <<>>
    /\ ~offlineMode
    /\ currentPosition = 0
    /\ lastFetch = "none"

\* The widget without mount target, after all the time of the model.
C15_Witness ==
  /\ phase = "aborted"
  /\ now = MaxNow
  /\ ~destroyed

\* The label of an age of d milliseconds, by the thresholds over the floors.
AgeLabel(d) ==
  IF d \div 60000 < 1 THEN << "now" >>
  ELSE IF d \div 60000 < 60 THEN << Decimal(d \div 60000), "m ago" >>
  ELSE IF d \div 3600000 < 24 THEN << Decimal(d \div 3600000), "h ago" >>
  ELSE << Decimal(d \div 86400000), "d ago" >>

\* C16: for a timestamp d milliseconds old formatTimeAgo returns "now" when
\* floor(d / 60000) < 1, else "{m}m ago" with m = floor(d / 60000) when
\* m < 60, else "{h}h ago" with h = floor(d / 3600000) when h < 24, else
\* "{d}d ago" with floor(d / 86400000); ages 0, 90000, 7200000 and 172800000
\* give "now", "1m ago", "2h ago" and "2d ago".
C16_AgeLabels ==
  timeAgo # <<>> =>
    LET d == now - timestampArg
    IN  /\ timeAgo = AgeLabel(d)
        /\ d = 0 => timeAgo = << "now" >>
        /\ d = 90000 => timeAgo = << << 1 >>, "m ago" >>
        /\ d = 7200000 => timeAgo = << << 2 >>, "h ago" >>
        /\ d = 172800000 => timeAgo = << << 2 >>, "d ago" >>
        /\ (60000 <= d /\ d < 3600000) => timeAgo[2] = "m ago"
        /\ (3600000 <= d /\ d < 86400000) => timeAgo[2] = "h ago"
        /\ d >= 86400000 => timeAgo[2] = "d ago"

\* formatTimeAgo has returned for a timestamp exactly one day old.
C16_Witness ==
  /\ now - timestampArg = 86400000
  /\ timeAgo = << << 1 >>, "d ago" >>

\* Entry `index` cannot be played: it is outside the playlist, or no id can
\* be extracted from its URL.
Unplayable(index) ==
  \/ index < 0
  \/ index >= Len(videoPlaylist)
  \/ extractYouTubeId(videoPlaylist[index + 1]) = <<>>

\* C17: videoPlayVideo(index) for an entry from which no id can be extracted,
\* or for an index outside the playlist, attempts no playback and changes
\* no player state: the iframe's src and visibility, videoIsPlaying and
\* videoCurrentIndex are the same after the call as before.
C17_FailedPlayChangesNothing ==
  [][ \A index \in PlayIndexes :
        (videoPlayVideo(index) /\ Unplayable(index))
          => UNCHANGED << videoIframe, videoIsPlaying, videoCurrentIndex >> ]_vars

\* C18: in every reachable state offlineMode is true exactly when the fetch
\* that completed last failed (whether or not the cache then supplied
\* headlines) and false when it succeeded or none has completed, and the
\* offline badge is displayed exactly when offlineMode is true.
C18_OfflineTracksLastFetch ==
  /\ offlineMode <=> lastFetch = "failed"
  /\ badgeDisplay = "block" <=> offlineMode

\* headlines is a list, not empty, of headlines of the feed of `service`.
HeadlinesOf(service) ==
  /\ headlines # <<>>
  /\ \A k \in 1..Len(headlines) : headlines[k][1] = SourceFile(service)

\* C19: under any interleaving of service changes, timer ticks and fetch
\* completions, the response to a request that was issued for a service
\* selected earlier never replaces headlines obtained for the service
\* selected now.
C19_StaleResponseDiscarded ==
  [][ \A q \in Queries : \A response \in Responses(q) :
        ( /\ FetchSucceeds(q, response)
          /\ q # Endpoint(currentService)
          /\ HeadlinesOf(currentService) )
        => headlines' = headlines ]_vars

\* The timestamp of the stored snapshot; -1 when nothing is stored.
SnapshotTime(store) ==
  IF store = <<>> THEN 0 - 1 ELSE Parse(store[1]).timestamp

\* C20: the timestamp of the cache snapshot advances only in a step in which
\* a fetch succeeds, so that headlines substituted from the cache were
\* fetched less than one hour earlier and an outage of more than one hour
\* ends with a stale snapshot that is no longer substituted.
C20_SnapshotTimeIsFetchTime ==
  [][ SnapshotTime(storage') > SnapshotTime(storage)
        => \E q \in Queries : \E response \in Responses(q) :
             FetchSucceeds(q, response) ]_vars

\* C21: when the fetch for the service selected now fails and a fresh cache
\* snapshot is substituted, the substituted headlines are headlines of that
\* same service: headlines fetched for another service are never shown as
\* the fallback of currentService.
C21_FallbackIsOfCurrentService ==
  [][ ( /\ FetchFails(Endpoint(currentService))
        /\ Usable(storage, now) )
      => \A k \in 1..Len(headlines') :
           headlines'[k][1] = SourceFile(currentService) ]_vars

\* C22: in every reachable state after setup, currentServiceIndex is one of
\* 0..4, currentService is the identifier of serviceCycle[currentServiceIndex]
\* and the text of the selector button is that entry's label while the
\* content is visible and the hidden glyph while it is hidden, whatever
\* clicks, double clicks and fetch completions came before.
C22_SelectorConsistent ==
  phase = "live" =>
    /\ currentServiceIndex \in 0..(Len(serviceCycle) - 1)
    /\ currentService = CycleAt(currentServiceIndex).service
    /\ btnLabel = IF hidden THEN HiddenGlyph
                  ELSE CycleAt(currentServiceIndex).label

\* The content was hidden and shown again on the last entry of the cycle,
\* after a fetch has completed.
C22_Witness ==
  /\ phase = "live"
  /\ ~hidden
  /\ currentServiceIndex = Len(serviceCycle) - 1
  /\ btnLabel = "Tweets"
  /\ lastFetch = "ok"
  /\ Len(cycleLog) > 1
  /\ dom

====
